---- MODULE Spec2Model ----
(***************************************************************************)
(* Schema algebra of gnomad_hail's utils.py: flatten_struct,               *)
(* get_ann_field, group_annotations_by_attribute, merge_TStructs,          *)
(* replace_vds_variant_schema, unify_vds_schemas and merge_schemas,        *)
(* modelled over Hail's Type / Field / TStruct values; and its             *)
(* allele-indexed annotation expressions: index_into_arrays,               *)
(* unfurl_filter_alleles_annotation, cut_allele_from_g_array and           *)
(* recompute_filters_by_allele, evaluated on one variant.                  *)
(*                                                                         *)
(* A Type is a record [tag, elem, fields]: tag is the Python class of the  *)
(* type object, elem the element type of a TArray / TSet, fields the       *)
(* ordered Field list of a TStruct.  A Field is [name, typ, attributes];   *)
(* attributes is a Python dict, modelled as a function from its keys.      *)
(* Paths and names are strings, joined as the code joins them.             *)
(***************************************************************************)
EXTENDS Integers, Sequences, FiniteSets, TLC

(***************************************************************************)
(* Type model                                                              *)
(***************************************************************************)
TInt == [tag |-> "TInt", elem |-> "", fields |-> <<>>]

TString == [tag |-> "TString", elem |-> "", fields |-> <<>>]

TArray(e) == [tag |-> "TArray", elem |-> e, fields |-> <<>>]

TSet(e) == [tag |-> "TSet", elem |-> e, fields |-> <<>>]

TBoolean == [tag |-> "TBoolean", elem |-> "", fields |-> <<>>]

TDouble == [tag |-> "TDouble", elem |-> "", fields |-> <<>>]

TDict == [tag |-> "TDict", elem |-> "", fields |-> <<>>]

\* TStruct.from_fields(fields)
TStruct(fs) == [tag |-> "TStruct", elem |-> "", fields |-> fs]

Field(name, typ, attributes) == [name |-> name, typ |-> typ, attributes |-> attributes]

NoAttributes == [k \in {} |-> ""]

\* isinstance(t, cls) for a class cls; Hail's type classes do not subclass one another
IsInstance(t, cls) == t.tag = cls

\* type(t)
TypeOf(t) == t.tag

(***************************************************************************)
(* Ordered dictionaries: a sequence of [key, value] entries, keys unique   *)
(***************************************************************************)
Range(q) == {q[i] : i \in DOMAIN q}

OdKeys(od) == [i \in DOMAIN od |-> od[i].key]

OdHas(od, k) == \E i \in DOMAIN od : od[i].key = k

OdGet(od, k) == od[CHOOSE i \in DOMAIN od : od[i].key = k].value

\* od[k] = v : a new key goes last, an existing key keeps its place
OdSet(od, k, v) ==
    IF OdHas(od, k)
    THEN [i \in DOMAIN od |-> IF od[i].key = k THEN [key |-> k, value |-> v] ELSE od[i]]
    ELSE Append(od, [key |-> k, value |-> v])

RECURSIVE OdUpdate(_, _)
\* od.update(other)
OdUpdate(od, other) ==
    IF other = <<>> THEN od
    ELSE OdUpdate(OdSet(od, other[1].key, other[1].value), Tail(other))

(***************************************************************************)
(* flatten_struct                                                          *)
(***************************************************************************)
\* '{}.{}'.format(root, f.name) if root else f.name
JoinPath(root, name) == IF root # "" THEN root \o "." \o name ELSE name

RECURSIVE flatten_struct(_, _, _, _)
RECURSIVE FlattenFrom_keeps_structs(_, _, _, _, _, _)
FlattenFrom_keeps_structs(struct, root, leaf_only, recursive, i, result) ==
    IF i > Len(struct.fields) THEN result
    ELSE LET f == struct.fields[i]
             path == JoinPath(root, f.name)
             next == IF IsInstance(f.typ, "TStruct") /\ recursive
                     THEN OdUpdate(OdSet(result, path, f),
                                   flatten_struct(f.typ, path, leaf_only, TRUE))
                     ELSE OdSet(result, path, f)
         IN  FlattenFrom_keeps_structs(struct, root, leaf_only, recursive, i + 1, next)

RECURSIVE FlattenFrom(_, _, _, _, _, _)
FlattenFrom(struct, root, leaf_only, recursive, i, result) ==
    IF i > Len(struct.fields) THEN result
    ELSE LET f == struct.fields[i]
             path == JoinPath(root, f.name)
             next == IF IsInstance(f.typ, "TStruct") /\ recursive
                     THEN OdUpdate(IF ~leaf_only THEN OdSet(result, path, f) ELSE result,
                                   \* the recursive call leaves `recursive` at its default
                                   flatten_struct(f.typ, path, leaf_only, TRUE))
                     ELSE OdSet(result, path, f)
         IN  FlattenFrom(struct, root, leaf_only, recursive, i + 1, next)

flatten_struct(struct, root, leaf_only, recursive) ==
    FlattenFrom(struct, root, leaf_only, recursive, 1, <<>>)

(***************************************************************************)
(* get_ann_field, get_ann_type: [err, ret]                                 *)
(***************************************************************************)
NoField == [name |-> "", typ |-> [tag |-> "None", elem |-> "", fields |-> <<>>],
            attributes |-> [k \in {} |-> ""]]

\* sys.exit(1) when the annotation is not a key of the flattened schema
get_ann_field(annotation, schema, root) ==
    LET anns == flatten_struct(schema, root, FALSE, TRUE)
    IN  IF ~OdHas(anns, annotation)
        THEN [err |-> "SystemExit", ret |-> NoField]
        ELSE [err |-> "", ret |-> OdGet(anns, annotation)]

get_ann_type(annotation, schema, root) ==
    LET f == get_ann_field(annotation, schema, root)
    IN  [err |-> f.err, ret |-> f.ret.typ]

(***************************************************************************)
(* group_annotations_by_attribute, get_numbered_annotations: [err, ret]    *)
(*                                                                         *)
(* `root` is kept as the list of the names it joins, <<"va", "info">> for  *)
(* 'va.info', so that `'.' in root` can be read off it; the paths of the   *)
(* result are the joined strings.  The result is the defaultdict as a      *)
(* dictionary from bucket key to the list of PathAndField.                 *)
(***************************************************************************)
None == "<None>"

PathAndField(path, field) == [path |-> path, field |-> field]

RECURSIVE Dotted(_)
\* the string root is: its names joined by '.'
Dotted(names) ==
    IF Len(names) = 1 THEN names[1]
    ELSE JoinPath(Dotted(SubSeq(names, 1, Len(names) - 1)), names[Len(names)])

annotation_type_is_numeric(t) ==
    \/ IsInstance(t, "TInt") \/ IsInstance(t, "TLong")
    \/ IsInstance(t, "TFloat") \/ IsInstance(t, "TDouble")

annotation_type_in_vcf_info(t) ==
    \/ annotation_type_is_numeric(t)
    \/ IsInstance(t, "TString") \/ IsInstance(t, "TArray")
    \/ IsInstance(t, "TSet") \/ IsInstance(t, "TBoolean")

default_values(field) ==
    IF IsInstance(field.typ, "TArray") \/ IsInstance(field.typ, "TSet") THEN "."
    ELSE IF IsInstance(field.typ, "TBoolean") THEN "0"
    ELSE IF annotation_type_in_vcf_info(field.typ) THEN "1"
    ELSE None

\* annotations[k].extend(v) on a defaultdict(list)
Extend(annotations, k, v) ==
    OdSet(annotations, k, IF OdHas(annotations, k) THEN OdGet(annotations, k) \o v ELSE v)

RECURSIVE ExtendAll(_, _)
\* for k, v in f_annotations.iteritems(): annotations[k].extend(v)
ExtendAll(annotations, f_annotations) ==
    IF f_annotations = <<>> THEN annotations
    ELSE ExtendAll(Extend(annotations, f_annotations[1].key, f_annotations[1].value),
                   Tail(f_annotations))

RECURSIVE group_annotations_by_attribute(_, _, _, _, _)
RECURSIVE GroupFrom(_, _, _, _, _, _, _, _)
\* the loop after the recursive call for field i has returned f_annotations
GroupNested(schema, grouping_key, root, recursive, default_func, fields, i, annotations, f_annotations) ==
    IF f_annotations.err # "" THEN f_annotations
    ELSE GroupFrom(schema, grouping_key, root, recursive, default_func, fields, i + 1,
                   ExtendAll(annotations, f_annotations.ret))

\* the loop over fields.fields from field i on; default_func is "" for None
GroupFrom(schema, grouping_key, root, recursive, default_func, fields, i, annotations) ==
    IF i > Len(fields.fields) THEN [err |-> "", ret |-> annotations]
    ELSE LET field == fields.fields[i]
             path == JoinPath(Dotted(root), field.name)
         IN  IF IsInstance(field.typ, "TArray")
             THEN GroupFrom(schema, grouping_key, root, recursive, default_func, fields, i + 1,
                            IF grouping_key \in DOMAIN field.attributes
                            THEN Extend(annotations, field.attributes[grouping_key],
                                        <<PathAndField(path, field)>>)
                            \* an Array without the attribute is appended nowhere
                            ELSE annotations)
             ELSE IF recursive /\ IsInstance(field.typ, "TStruct")
             THEN GroupNested(schema, grouping_key, root, recursive, default_func, fields, i,
                              annotations,
                              group_annotations_by_attribute(
                                  schema, grouping_key, Append(root, field.name), recursive,
                                  default_func))
             ELSE GroupFrom(schema, grouping_key, root, recursive, default_func, fields, i + 1,
                            Extend(annotations,
                                   IF default_func # "" THEN default_values(field) ELSE None,
                                   <<PathAndField(path, field)>>))

\* fields = get_ann_type(root, schema), then the loop
GroupFields(schema, grouping_key, root, recursive, default_func, fields) ==
    IF fields.err # "" THEN [err |-> fields.err, ret |-> <<>>]
    ELSE GroupFrom(schema, grouping_key, root, recursive, default_func, fields.ret, 1, <<>>)

group_annotations_by_attribute(schema, grouping_key, root, recursive, default_func) ==
    IF Len(root) > 1
    THEN GroupFields(schema, grouping_key, root, recursive, default_func,
                     get_ann_type(Dotted(root), schema, "va"))
    ELSE GroupFrom(schema, grouping_key, root, recursive, default_func, schema, 1, <<>>)

get_numbered_annotations(schema, root, recursive, default_when_missing) ==
    group_annotations_by_attribute(schema, "Number", root, recursive,
                                   IF default_when_missing THEN "default_values" ELSE "")

(***************************************************************************)
(* merge_TStructs                                                          *)
(*                                                                         *)
(* Field objects are shared between the argument list, the flattened       *)
(* dictionaries and the result, and `attributes = f.attributes` binds the  *)
(* field's own dict, so the function is modelled as returning, with its    *)
(* result, the argument list as the call leaves it: [err, ret, s, warns].  *)
(* Distinct input Structs are distinct objects.                            *)
(***************************************************************************)
NoStruct == [tag |-> "None", elem |-> "", fields |-> <<>>]

Warning(kind, name, key, kept, other) ==
    [kind |-> kind, name |-> name, key |-> key, kept |-> kept, other |-> other]

RECURSIVE SetToSeqAscending(_)
\* a set of numbers as the ascending list
SetToSeqAscending(S) ==
    IF S = {} THEN <<>>
    ELSE LET x == CHOOSE y \in S : \A z \in S : y <= z IN <<x>> \o SetToSeqAscending(S \ {x})

RECURSIVE SetToSeq(_)
\* the iteration order of a dict's keys: arbitrary but fixed
SetToSeq(S) ==
    IF S = {} THEN <<>>
    ELSE LET x == CHOOSE y \in S : TRUE IN <<x>> \o SetToSeq(S \ {x})

\* name in x, for x = flatten_struct(struct, root='', recursive=False)
HasField(struct, name) == OdHas(flatten_struct(struct, "", TRUE, FALSE), name)

\* position in struct.fields of the Field object that x[name] refers to
FieldIndex(struct, name) == CHOOSE j \in DOMAIN struct.fields : struct.fields[j].name = name

\* x[name]
GetField(struct, name) == OdGet(flatten_struct(struct, "", TRUE, FALSE), name)

\* as f_overlap, looking no further than the next Struct of the queue
f_overlap_next_only(s, i, name) ==
    SelectSeq([k \in 1..(IF Len(s) > i THEN 1 ELSE 0) |-> i + k], LAMBDA k : HasField(s[k], name))

\* [x[name] for x in s_fields if name in x], as positions in s; s_fields holds s[i+1..]
f_overlap(s, i, name) ==
    SelectSeq([k \in 1..(Len(s) - i) |-> i + k], LAMBDA k : HasField(s[k], name))

\* as UnionAttributes, the later value replacing the earlier one: attributes.update(f2.attributes)
UnionAttributes_last_wins(attributes, f2attrs) ==
    [k \in (DOMAIN attributes) \cup (DOMAIN f2attrs) |->
        IF k \in DOMAIN f2attrs THEN f2attrs[k] ELSE attributes[k]]

\* for k,v in f2.attributes.iteritems(): if k in attributes: ... else: attributes[k] = v
UnionAttributes(attributes, f2attrs) ==
    [k \in (DOMAIN attributes) \cup (DOMAIN f2attrs) |->
        IF k \in DOMAIN attributes THEN attributes[k] ELSE f2attrs[k]]

\* if k in attributes: if v != attributes[k]: logger.warn(...)
AttributeWarnings(name, attributes, f2attrs) ==
    LET keys == SelectSeq(SetToSeq(DOMAIN f2attrs),
                          LAMBDA k : k \in DOMAIN attributes /\ f2attrs[k] # attributes[k])
    IN  [n \in DOMAIN keys |->
            Warning("AttributeConflict", name, keys[n], attributes[keys[n]], f2attrs[keys[n]])]

RECURSIVE OverlapLoop(_, _, _, _)
\* for f2 in f_overlap: type check, then attribute union
OverlapLoop(f, f2s, attributes, warns) ==
    IF f2s = <<>> THEN [err |-> "", attributes |-> attributes, warns |-> warns]
    ELSE LET f2 == Head(f2s)
         IN  IF ~IsInstance(f2.typ, TypeOf(f.typ))
             THEN [err |-> "TypeError", attributes |-> attributes, warns |-> warns]
             ELSE OverlapLoop(f, Tail(f2s),
                              UnionAttributes(attributes, f2.attributes),
                              warns \o AttributeWarnings(f.name, attributes, f2.attributes))

\* the argument list after the nested call has run on [f.typ] + [f2.typ for f2 in f_overlap]
WriteBackTypes(s, i, j, ov, name, types) ==
    [k \in DOMAIN s |->
        IF k = i THEN [s[k] EXCEPT !.fields[j].typ = types[1]]
        ELSE IF \E m \in DOMAIN ov : ov[m] = k
        THEN LET m == CHOOSE m \in DOMAIN ov : ov[m] = k
             IN  [s[k] EXCEPT !.fields[FieldIndex(s[k], name)].typ = types[m + 1]]
        ELSE s[k]]

\* as InsertField, the new name going first
InsertField_first(fields, f) == <<f>> \o fields

\* as NestedTypes, with f for f2: [f.typ] + [f.typ for f2 in f_overlap]
NestedTypes_f_for_f2(f, f2s) == <<f.typ>> \o [m \in DOMAIN f2s |-> f.typ]

\* fields[name] = ... on the OrderedDict `fields`, for a name that is not in it yet
InsertField(fields, f) == Append(fields, f)

\* [f.typ] + [f2.typ for f2 in f_overlap]
NestedTypes(f, f2s) == <<f.typ>> \o [m \in DOMAIN f2s |-> f2s[m].typ]

RECURSIVE merge_TStructs(_)
RECURSIVE MergeLoop(_, _, _)
\* body of `for name, f in s_current.iteritems()` for field j of the i-th Struct
MergeField(st, i, j) ==
    LET f == st.s[i].fields[j]
        name == f.name
    IN  IF \E n \in DOMAIN st.fields : st.fields[n].name = name THEN st
        ELSE
        LET ov == f_overlap(st.s, i, name)
            f2s == [m \in DOMAIN ov |-> GetField(st.s[ov[m]], name)]
            lp == OverlapLoop(f, f2s, f.attributes, <<>>)
            s1 == [st.s EXCEPT ![i].fields[j].attributes = lp.attributes]
            w1 == st.warns \o lp.warns
        IN  IF lp.err # ""
            THEN [st EXCEPT !.err = lp.err, !.s = s1, !.warns = w1]
            ELSE IF IsInstance(f.typ, "TStruct") /\ ov # <<>>
            THEN LET r == merge_TStructs(NestedTypes(f, f2s))
                     s2 == WriteBackTypes(s1, i, j, ov, name, r.s)
                 IN  IF r.err # ""
                     THEN [st EXCEPT !.err = r.err, !.s = s2, !.warns = w1 \o r.warns]
                     ELSE [st EXCEPT !.s = s2, !.warns = w1 \o r.warns,
                                     !.fields = InsertField(@, Field(name, r.ret, lp.attributes))]
            ELSE [st EXCEPT !.s = s1, !.warns = w1,
                            !.fields = InsertField(@, [f EXCEPT !.attributes = lp.attributes])]

\* while len(s_fields) > 0: s_current = s_fields.pop(0); for name, f in s_current.iteritems()
MergeLoop(st, i, j) ==
    IF st.err # "" \/ i > Len(st.s) THEN st
    ELSE IF j > Len(st.s[i].fields) THEN MergeLoop(st, i + 1, 1)
    ELSE MergeLoop(MergeField(st, i, j), i, j + 1)

merge_TStructs(s) ==
    IF s = <<>>
    THEN [err |-> "ValueError", ret |-> NoStruct, s |-> s, warns |-> <<>>]
    ELSE IF Len(s) < 2
    THEN [err |-> "", ret |-> s[Len(s)], s |-> SubSeq(s, 1, Len(s) - 1),
          warns |-> <<Warning("SingleStruct", "", "", "", "")>>]
    ELSE LET st == MergeLoop([err |-> "", s |-> s, fields |-> <<>>, warns |-> <<>>], 1, 1)
         IN  [err |-> st.err,
              ret |-> IF st.err = "" THEN TStruct(st.fields) ELSE NoStruct,
              s |-> st.s, warns |-> st.warns]

(***************************************************************************)
(* The host (Hail): a dataset is [variant_schema]; field attributes live   *)
(* in the schema's Fields.  Datasets are immutable: annotate_variants_expr *)
(* and set_va_attributes return a new dataset.                             *)
(***************************************************************************)
VDS(schema) == [variant_schema |-> schema]

\* one entry of a struct expression '{name: ...}': 'NA:typ', an existing path, or a nested struct
Directive(name, src, typ, path, sub) ==
    [name |-> name, src |-> src, typ |-> typ, path |-> path, sub |-> sub]

RECURSIVE StripAttributes(_)
\* a type as its printed form 'NA:{typ}' declares it: field attributes are not part of it
StripAttributes(t) ==
    [t EXCEPT !.fields = [i \in DOMAIN t.fields |->
        Field(t.fields[i].name, StripAttributes(t.fields[i].typ), NoAttributes)]]

RECURSIVE ExprType(_, _)
\* the type of the struct expression built by get_schema_expr, evaluated on a dataset
ExprType(expr, old_schema_fields) ==
    TStruct([i \in DOMAIN expr |->
        Field(expr[i].name,
              CASE expr[i].src = "NA" -> StripAttributes(expr[i].typ)
                [] expr[i].src = "path" -> StripAttributes(OdGet(old_schema_fields, expr[i].path).typ)
                [] OTHER -> ExprType(expr[i].sub, old_schema_fields),
              NoAttributes)])

\* vds.annotate_variants_expr('va = {...}')
annotate_variants_expr(vds, expr) ==
    VDS(ExprType(expr, flatten_struct(vds.variant_schema, "va", FALSE, TRUE)))

RECURSIVE SetAttributesAt(_, _, _, _)
SetAttributesAt(struct, root, path, attributes) ==
    [struct EXCEPT !.fields = [i \in DOMAIN struct.fields |->
        LET f == struct.fields[i]
            p == JoinPath(root, f.name)
        IN  IF p = path THEN [f EXCEPT !.attributes = attributes]
            ELSE IF IsInstance(f.typ, "TStruct")
            THEN [f EXCEPT !.typ = SetAttributesAt(f.typ, p, path, attributes)]
            ELSE f]]

\* vds.set_va_attributes(path, attributes)
set_va_attributes(vds, path, attributes) ==
    VDS(SetAttributesAt(vds.variant_schema, "va", path, attributes))

(***************************************************************************)
(* replace_vds_variant_schema                                              *)
(***************************************************************************)
\* isinstance(obj, t) at line 984: t is f.typ, a type object and not a class, and
\* Python raises "isinstance() arg 2 must be a class, type, or tuple of classes and types"
IsInstanceOfObject(obj, t) == "TypeError"

RECURSIVE get_schema_expr(_, _, _)
RECURSIVE SchemaExprFrom(_, _, _, _, _)
SchemaExprFrom(struct, root, old_schema_fields, i, acc) ==
    IF acc.err # "" \/ i > Len(struct.fields) THEN acc
    ELSE
    LET f == struct.fields[i]
        path == root \o "." \o f.name
        NA == Directive(f.name, "NA", f.typ, "", <<>>)
        chk == IsInstanceOfObject(OdGet(old_schema_fields, path).typ, f.typ)
        next ==
            IF ~OdHas(old_schema_fields, path)
            THEN [acc EXCEPT !.expr = Append(@, NA)]
            ELSE IF chk = "TypeError"
            THEN [acc EXCEPT !.err = "TypeError"]
            ELSE IF chk = "False"
            THEN [acc EXCEPT !.expr = Append(@, NA),
                             !.warns = Append(@, Warning("TypeOverride", path, "", "", ""))]
            ELSE IF IsInstance(f.typ, "TStruct")
            THEN LET r == get_schema_expr(f.typ, path, old_schema_fields)
                 IN  [err |-> r.err,
                      expr |-> Append(acc.expr, Directive(f.name, "struct", f.typ, "", r.expr)),
                      warns |-> acc.warns \o r.warns]
            ELSE [acc EXCEPT !.expr = Append(@, Directive(f.name, "path", f.typ, path, <<>>))]
    IN  SchemaExprFrom(struct, root, old_schema_fields, i + 1, next)

get_schema_expr(struct, root, old_schema_fields) ==
    SchemaExprFrom(struct, root, old_schema_fields, 1, [err |-> "", expr |-> <<>>, warns |-> <<>>])

RECURSIVE SetLeafAttributes(_, _)
\* for path, field in flatten_struct(new_schema, root='va').iteritems(): if field.attributes: ...
SetLeafAttributes(vds, leaves) ==
    IF leaves = <<>> THEN vds
    ELSE SetLeafAttributes(
            IF leaves[1].value.attributes # NoAttributes
            THEN set_va_attributes(vds, leaves[1].key, leaves[1].value.attributes)
            ELSE vds,
            Tail(leaves))

NoVDS == VDS(NoStruct)

replace_vds_variant_schema(vds, new_schema) ==
    LET e == get_schema_expr(new_schema, "va",
                             flatten_struct(vds.variant_schema, "va", FALSE, TRUE))
    IN  IF e.err # ""
        THEN [err |-> e.err, ret |-> NoVDS, expr |-> <<>>, warns |-> e.warns]
        ELSE [err |-> "",
              ret |-> SetLeafAttributes(annotate_variants_expr(vds, e.expr),
                                        flatten_struct(new_schema, "va", TRUE, TRUE)),
              expr |-> e.expr, warns |-> e.warns]

(***************************************************************************)
(* unify_vds_schemas                                                       *)
(***************************************************************************)
RECURSIVE ReplaceAll(_, _, _)
\* [replace_vds_variant_schema(vds, unified_schema) for vds in vdses]
ReplaceAll(vdses, unified_schema, acc) ==
    IF acc.err # "" \/ vdses = <<>> THEN acc
    ELSE LET r == replace_vds_variant_schema(Head(vdses), unified_schema)
         IN  ReplaceAll(Tail(vdses), unified_schema,
                        IF r.err # ""
                        THEN [acc EXCEPT !.err = r.err, !.warns = @ \o r.warns]
                        ELSE [acc EXCEPT !.ret = Append(@, r.ret), !.exprs = Append(@, r.expr),
                                          !.warns = @ \o r.warns])

\* the list returned once every dataset has been replaced (r), for the merge outcome m
UnifyReturn(m, r) ==
    [err |-> r.err, ret |-> IF r.err = "" THEN r.ret ELSE <<>>,
     exprs |-> IF r.err = "" THEN r.exprs ELSE <<>>,
     warns |-> r.warns, unified |-> m.ret, s |-> m.s]

\* line 1023, for the outcome m of the merge_TStructs call of line 1022
UnifyMerged(vdses, m) ==
    IF m.err # ""
    THEN [err |-> m.err, ret |-> <<>>, exprs |-> <<>>, warns |-> m.warns,
          unified |-> NoStruct, s |-> m.s]
    ELSE UnifyReturn(m, ReplaceAll(vdses, m.ret,
                                   [err |-> "", ret |-> <<>>, exprs |-> <<>>, warns |-> m.warns]))

\* replace_vds_variant_schema reads only the paths and types of vds.variant_schema, which
\* merge_TStructs leaves alone, so the datasets are passed on as they were
unify_vds_schemas(vdses) ==
    UnifyMerged(vdses, merge_TStructs([i \in DOMAIN vdses |-> vdses[i].variant_schema]))

(***************************************************************************)
(* merge_schemas                                                           *)
(***************************************************************************)
\* ["%s = NA: %s" % (k, str(v.typ)) for k, v in all_anns.iteritems() if k not in anns[i]]
MissingExpr(all_anns, ann) ==
    LET missing == SelectSeq(all_anns, LAMBDA e : ~OdHas(ann, e.key))
    IN  [n \in DOMAIN missing |->
            Directive(missing[n].key, "NA", missing[n].value.typ, "", <<>>)]

RECURSIVE AllAnns_last_wins(_, _, _)
AllAnns_last_wins(anns, i, acc) ==
    IF acc.err # "" \/ i < 1 THEN acc
    ELSE LET common_keys == Range(OdKeys(acc.all_anns)) \cap Range(OdKeys(anns[i]))
         IN  IF \E k \in common_keys :
                    ~IsInstance(OdGet(acc.all_anns, k).typ, TypeOf(OdGet(anns[i], k).typ))
             THEN [acc EXCEPT !.err = "SystemExit"]
             ELSE AllAnns_last_wins(anns, i - 1, [acc EXCEPT !.all_anns = OdUpdate(anns[i], @)])

RECURSIVE AllAnns(_, _, _)
\* for i in reversed(range(len(vds_schemas))): type check on the common keys, then update
AllAnns(anns, i, acc) ==
    IF acc.err # "" \/ i < 1 THEN acc
    ELSE LET common_keys == Range(OdKeys(acc.all_anns)) \cap Range(OdKeys(anns[i]))
         IN  IF \E k \in common_keys :
                    ~IsInstance(OdGet(acc.all_anns, k).typ, TypeOf(OdGet(anns[i], k).typ))
             THEN [acc EXCEPT !.err = "SystemExit"]
             ELSE AllAnns(anns, i - 1, [acc EXCEPT !.all_anns = OdUpdate(@, anns[i])])

merge_schemas(vdses) ==
    LET vds_schemas == [i \in DOMAIN vdses |-> vdses[i].variant_schema]
    IN  IF vdses = <<>>
        THEN [err |-> "IndexError", ret |-> <<>>, exprs |-> <<>>, all_anns |-> <<>>]
        ELSE IF \E i \in 2..Len(vds_schemas) : ~IsInstance(vds_schemas[1], TypeOf(vds_schemas[i]))
        THEN [err |-> "SystemExit", ret |-> <<>>, exprs |-> <<>>, all_anns |-> <<>>]
        ELSE IF ~IsInstance(vds_schemas[1], "TStruct")
        THEN [err |-> "", ret |-> vdses, exprs |-> <<>>, all_anns |-> <<>>]
        ELSE
        LET anns == [i \in DOMAIN vds_schemas |-> flatten_struct(vds_schemas[i], "va", TRUE, TRUE)]
            a == AllAnns(anns, Len(vds_schemas), [err |-> "", all_anns |-> <<>>])
        IN  IF a.err # ""
            THEN [err |-> a.err, ret |-> <<>>, exprs |-> <<>>, all_anns |-> <<>>]
            \* `vds = vds.annotate_variants_expr(...)` rebinds the loop variable only:
            \* the list that is returned still holds the datasets that were passed in
            ELSE [err |-> "", ret |-> vdses, all_anns |-> a.all_anns,
                  exprs |-> [i \in DOMAIN vdses |-> MissingExpr(a.all_anns, anns[i])]]

(***************************************************************************)
(* Allele-indexed annotations                                              *)
(*                                                                         *)
(* index_into_arrays, unfurl_filter_alleles_annotation,                    *)
(* cut_allele_from_g_array and recompute_filters_by_allele write           *)
(* expressions of Hail's expression language.  An expression               *)
(* 'dest = <body>' is a record [dest, kind, target, ...] whose kind names  *)
(* the body's template; Eval gives the value Hail computes for the body on *)
(* a variant.  A value is [type, items]: an Array with its elements, or    *)
(* any other value as the one item.  Arrays are indexed from 0: At(a, i)   *)
(* is a[i].                                                                *)
(***************************************************************************)
HailArray(items) == [type |-> "Array", items |-> items]

HailValue(x) == [type |-> "Value", items |-> <<x>>]

At(a, i) == a[i + 1]

\* range(n)
HailRange(n) == [i \in 1..n |-> i - 1]

\* a.map(i => f[i]) for an array a of indices
MapAt(a, f, shift) == [n \in DOMAIN a |-> At(f, a[n] + shift)]

\* floor(sqrt(n))
ISqrt(n) == CHOOSE r \in 0..n : r * r <= n /\ n < (r + 1) * (r + 1)

\* the index of the genotype j/k, j <= k, in an array laid out by genotype
gtIndex(j, k) == (k * (k + 1)) \div 2 + j

gtk_row_above(i) == (ISqrt(8 * i + 1) + 1) \div 2

\* gtk(i), gtj(i) of the expression language: the pair j <= k of the genotype at index i
gtk(i) == (ISqrt(8 * i + 1) - 1) \div 2

gtj(i) == i - (gtk(i) * (gtk(i) + 1)) \div 2

Expr(dest, kind, target) == [dest |-> dest, kind |-> kind, target |-> target]

RemovedAlleles_without_last(nAltAlleles, aIndices) ==
    Range(SelectSeq([n \in 1..(nAltAlleles - 1) |-> n], LAMBDA i : i \notin Range(aIndices)))

\* the three expressions after the first (lines 98-100), `removed_alleles` and the result
RemovedAlleles(nAltAlleles, aIndices) ==
    Range(SelectSeq([n \in 1..nAltAlleles |-> n], LAMBDA i : i \notin Range(aIndices)))

CutAllele_any_removed(target, nAltAlleles, aIndices) ==
    LET removed_alleles == RemovedAlleles(nAltAlleles, aIndices)
        kept == SelectSeq(HailRange(Len(target)),
                          LAMBDA i : gtj(i) \notin removed_alleles \/ gtk(i) \notin removed_alleles)
    IN  [n \in DOMAIN kept |-> At(target, kept[n])]

CutAllele(target, nAltAlleles, aIndices) ==
    LET removed_alleles == RemovedAlleles(nAltAlleles, aIndices)
        kept == SelectSeq(HailRange(Len(target)),
                          LAMBDA i : gtj(i) \notin removed_alleles /\ gtk(i) \notin removed_alleles)
    IN  [n \in DOMAIN kept |-> At(target, kept[n])]

\* '%s = let removed_alleles = ... in range(%s.size).filter(...).map(i => %s[i])'
cut_allele_from_g_array(target, destination) ==
    Expr(IF destination = "" THEN target ELSE destination, "cut_allele", target)

index_into_arrays_r_keeps_array(a_based_annotations, r_based_annotations, vep_root, drop_ref_ann) ==
    [n \in DOMAIN a_based_annotations |->
        Expr(a_based_annotations[n], "[va.aIndex - 1]", a_based_annotations[n])]
    \o [n \in DOMAIN r_based_annotations |->
        Expr(r_based_annotations[n], "[[0], [va.aIndex]]", r_based_annotations[n])]
    \o IF vep_root # ""
       THEN [n \in 1..4 |->
               LET sub_fields == <<"transcript_consequences", "intergenic_consequences",
                                   "motif_feature_consequences", "regulatory_feature_consequences">>
               IN  Expr(JoinPath(vep_root, sub_fields[n]), "filter(allele_num == va.aIndex)",
                        JoinPath(vep_root, sub_fields[n]))]
       ELSE <<>>

\* None is the empty list for the annotation lists and "" for vep_root
index_into_arrays(a_based_annotations, r_based_annotations, vep_root, drop_ref_ann) ==
    \* '{0} = {0}[va.aIndex - 1]'
    [n \in DOMAIN a_based_annotations |->
        Expr(a_based_annotations[n], "[va.aIndex - 1]", a_based_annotations[n])]
    \* '{0} = {0}[va.aIndex]' if drop_ref_ann else '{0} = [{0}[0], {0}[va.aIndex]]'
    \o [n \in DOMAIN r_based_annotations |->
        Expr(r_based_annotations[n],
             IF drop_ref_ann THEN "[va.aIndex]" ELSE "[[0], [va.aIndex]]",
             r_based_annotations[n])]
    \* '{0}.{1} = {0}.{1}.filter(x => x.allele_num == va.aIndex)'
    \o IF vep_root # ""
       THEN [n \in 1..4 |->
               LET sub_fields == <<"transcript_consequences", "intergenic_consequences",
                                   "motif_feature_consequences", "regulatory_feature_consequences">>
               IN  Expr(JoinPath(vep_root, sub_fields[n]), "filter(allele_num == va.aIndex)",
                        JoinPath(vep_root, sub_fields[n]))]
       ELSE <<>>

\* additional_annotations: None, one expression (a str, held as value[1]) or a list of
\* expressions
NoAdditional == [type |-> "NoneType", value |-> <<>>]

Additional(type, value) == [type |-> type, value |-> value]

unfurl_filter_alleles_annotation_r_as_a(a_based, r_based, g_based, additional_annotations) ==
    [n \in DOMAIN r_based |-> Expr(r_based[n], "aIndices[1:].map([i - 1])", r_based[n])]
    \o [n \in DOMAIN a_based |-> Expr(a_based[n], "aIndices[1:].map([i - 1])", a_based[n])]
    \o [n \in DOMAIN g_based |-> cut_allele_from_g_array(g_based[n], "")]
    \o IF additional_annotations.type = "NoneType" THEN <<>>
       ELSE IF additional_annotations.type = "str"
       THEN <<Expr("", "additional", additional_annotations.value[1])>>
       ELSE [n \in DOMAIN additional_annotations.value |->
               Expr("", "additional", additional_annotations.value[n])]

\* the expressions that line 151 joins with ',\n' into one string, in their order
unfurl_filter_alleles_annotation(a_based, r_based, g_based, additional_annotations) ==
    \* '%s = aIndices.map(i => %s[i])'
    [n \in DOMAIN r_based |-> Expr(r_based[n], "aIndices.map([i])", r_based[n])]
    \* '%s = aIndices[1:].map(i => %s[i - 1])'
    \o [n \in DOMAIN a_based |-> Expr(a_based[n], "aIndices[1:].map([i - 1])", a_based[n])]
    \o [n \in DOMAIN g_based |-> cut_allele_from_g_array(g_based[n], "")]
    \o IF additional_annotations.type = "NoneType" THEN <<>>
       ELSE IF additional_annotations.type = "str"
       THEN <<Expr("", "additional", additional_annotations.value[1])>>
       ELSE [n \in DOMAIN additional_annotations.value |->
               Expr("", "additional", additional_annotations.value[n])]

recompute_filters_by_allele_default_catalogue(AS_filters, indexed_into_array) ==
    <<[dest |-> "va.filters", kind |-> "filters", target |-> "va.filters",
       AS_filters |-> <<"AC0", "RF">>,
       status |-> IF indexed_into_array THEN "" ELSE ".toSet().flatten()"]>>

\* 'va.filters = va.filters.filter(x => !["{0}"].toSet.difference(
\*      va.info.AS_FilterStatus{1}).contains(x))'; AS_filters None is the empty list
recompute_filters_by_allele(AS_filters, indexed_into_array) ==
    <<[dest |-> "va.filters", kind |-> "filters", target |-> "va.filters",
       AS_filters |-> IF AS_filters = <<>> THEN <<"AC0", "RF">> ELSE AS_filters,
       status |-> IF indexed_into_array THEN "" ELSE ".toSet().flatten()"]>>

\* the value of an expression's body on a variant: env is [va, aIndex, aIndices, nAltAlleles]
Eval(e, env) ==
    CASE e.kind = "[va.aIndex - 1]" -> HailValue(At(env.va[e.target].items, env.aIndex - 1))
      [] e.kind = "[va.aIndex]" -> HailValue(At(env.va[e.target].items, env.aIndex))
      [] e.kind = "[[0], [va.aIndex]]" ->
            HailArray(<<At(env.va[e.target].items, 0), At(env.va[e.target].items, env.aIndex)>>)
      [] e.kind = "filter(allele_num == va.aIndex)" ->
            HailArray(SelectSeq(env.va[e.target].items, LAMBDA x : x.allele_num = env.aIndex))
      [] e.kind = "aIndices.map([i])" -> HailArray(MapAt(env.aIndices, env.va[e.target].items, 0))
      [] e.kind = "aIndices[1:].map([i - 1])" ->
            HailArray(MapAt(Tail(env.aIndices), env.va[e.target].items, -1))
      [] e.kind = "cut_allele" ->
            HailArray(CutAllele(env.va[e.target].items, env.nAltAlleles, env.aIndices))
      [] e.kind = "filters" ->
            LET status == env.va["va.info.AS_FilterStatus"]
                \* the per-allele set itself, or the array's sets .toSet().flatten()
                present == IF e.status = "" THEN status.items[1] ELSE UNION Range(status.items)
            IN  HailValue({x \in env.va[e.target].items[1] :
                              x \notin (Range(e.AS_filters) \ present)})

\* annotate_variants_expr(exprs) on one variant: every destination gets its body's value;
\* the additional expressions are the caller's and touch none of the annotations here
Annotate(env, exprs) ==
    LET own == SelectSeq(exprs, LAMBDA e : e.kind # "additional")
        dests == {own[n].dest : n \in DOMAIN own}
    IN  [a \in DOMAIN env.va \cup dests |->
            IF a \in dests
            THEN Eval(own[CHOOSE n \in DOMAIN own : own[n].dest = a], env)
            ELSE env.va[a]]

(***************************************************************************)
(* Inputs: lists of at most MaxStructs Structs of one family               *)
(***************************************************************************)
MaxStructs == 3

MaxFields == 2

Number(v) == [k \in {"Number"} |-> v]

Description(v) == [k \in {"Description"} |-> v]

\* the field lists of at most MaxFields fields of `pool`, names unique within a list
FieldLists(pool) ==
    UNION {{fs \in [1..n -> pool] : \A i, j \in 1..n : i # j => fs[i].name # fs[j].name}
           : n \in 0..MaxFields}

StructsOf(pool) == {TStruct(fs) : fs \in FieldLists(pool)}

ListsOf(structs) == UNION {[1..n -> structs] : n \in 0..MaxStructs}

\* field order: three names, one type
OrderStructs == StructsOf({Field(n, TInt, NoAttributes) : n \in {"a", "b", "c"}})

\* type tags, element types and attribute maps of one field
LeafStructs ==
    StructsOf({Field("a", t, at) : t \in {TInt, TArray("TInt"), TArray("TString")},
                                   at \in {NoAttributes, Number("1"), Number("2"), Description("d")}})

\* one level of nesting
InnerStructs ==
    StructsOf({Field("a", TInt, Number("1")), Field("a", TInt, Number("2")),
               Field("a", TString, NoAttributes), Field("b", TInt, NoAttributes)})

NestedStructs ==
    StructsOf({Field("x", TStruct(st.fields), NoAttributes) : st \in InnerStructs}
              \cup {Field("x", TInt, NoAttributes)})

\* two levels of nesting
DeepStructs ==
    LET level2 == {TStruct(<<f>>) : f \in {Field("a", TInt, Number("1")), Field("a", TString, NoAttributes),
                                            Field("b", TInt, Number("2"))}}
        level1 == {TStruct(<<Field("y", t, a)>>) : t \in level2 \cup {TInt}, a \in {NoAttributes, Number("1")}}
    IN  {TStruct(<<Field("x", t, NoAttributes)>>) : t \in level1} \cup {TStruct(<<>>)}

\* an INFO-like schema: arrays with and without Number, a set, a flag, plain values with
\* and without Number, a type that has no VCF form, and a nested Struct of such fields
InfoStructs ==
    LET inner == StructsOf({Field("AN", TInt, NoAttributes),
                            Field("AF", TArray("TDouble"), Number("A")),
                            Field("AF", TArray("TDouble"), NoAttributes)})
    IN  StructsOf({Field("AC", TArray("TInt"), Number("A")),
                   Field("AC", TArray("TInt"), NoAttributes),
                   Field("FS", TSet("TString"), NoAttributes),
                   Field("DB", TBoolean, NoAttributes),
                   Field("DP", TInt, NoAttributes),
                   Field("DP", TInt, Number("1")),
                   Field("m", TDict, NoAttributes)}
                  \cup {Field("info", TStruct(st.fields), NoAttributes) : st \in inner})

Inputs ==
    ListsOf(OrderStructs) \cup ListsOf(LeafStructs) \cup ListsOf(NestedStructs) \cup ListsOf(DeepStructs)
    \cup {<<st>> : st \in InfoStructs}

(***************************************************************************)
(* State machine: one call of one of the operations on the inputs          *)
(***************************************************************************)
VARIABLES
    s,      \* the list of Structs: the argument of merge_TStructs, the datasets' variant schemas
    s0,     \* the list as it was before the call
    op,     \* the operation that has been called
    ret,    \* its return value
    err,    \* the exception it raised, or "SystemExit"
    warns,  \* what it wrote to logger.warn
    exprs,  \* the expressions it handed to annotate_variants_expr, one per dataset
    all_anns, \* merge_schemas' dictionary of reconciled Fields, as handed to set_va_attributes
    args,   \* the other arguments of the call
    v       \* the variant the expressions are evaluated on: [nAltAlleles, va]

vars == <<s, s0, op, ret, err, warns, exprs, all_anns, args, v>>

NoVariant == [nAltAlleles |-> 0, va |-> <<>>]

Init ==
    /\ s \in Inputs
    /\ s0 = s
    /\ op = "none"
    /\ ret = <<>>
    /\ err = ""
    /\ warns = <<>>
    /\ exprs = <<>>
    /\ all_anns = <<>>
    /\ args = <<>>
    /\ v = NoVariant

vdses == [i \in DOMAIN s |-> VDS(s[i])]

CallMergeTStructs ==
    /\ op = "none"
    /\ \E m \in {merge_TStructs(s)} :
          /\ s' = m.s
          /\ ret' = m.ret
          /\ err' = m.err
          /\ warns' = m.warns
    /\ op' = "merge_TStructs"
    /\ UNCHANGED <<s0, exprs, all_anns, args, v>>

\* replace_vds_variant_schema(vds, new_schema) with the first Struct as the dataset's schema
CallReplaceVdsVariantSchema ==
    /\ op = "none"
    /\ Len(s) = 2
    /\ \E r \in {replace_vds_variant_schema(VDS(s[1]), s[2])} :
          /\ ret' = r.ret
          /\ err' = r.err
          /\ warns' = r.warns
          /\ exprs' = IF r.err = "" THEN <<r.expr>> ELSE <<>>
    /\ op' = "replace_vds_variant_schema"
    /\ UNCHANGED <<s, s0, all_anns, args, v>>

\* whether a dataset hands out the same schema object on every access is the host's
\* business: the schemas are afterwards either untouched or as merge_TStructs left them
CallUnifyVdsSchemas ==
    /\ op = "none"
    /\ \E u \in {unify_vds_schemas(vdses)} :
          /\ s' \in {s, IF Len(s) >= 2 THEN u.s ELSE s}
          /\ ret' = u.ret
          /\ err' = u.err
          /\ warns' = u.warns
          /\ exprs' = u.exprs
    /\ op' = "unify_vds_schemas"
    /\ UNCHANGED <<s0, all_anns, args, v>>

CallMergeSchemas ==
    /\ op = "none"
    /\ \E r \in {merge_schemas(vdses)} :
          /\ ret' = r.ret
          /\ err' = r.err
          /\ exprs' = r.exprs
          /\ all_anns' = r.all_anns
    /\ op' = "merge_schemas"
    /\ UNCHANGED <<s, s0, warns, args, v>>

\* the annotations that are looked up
Annotations == {"va.a", "va.b", "va.x", "va.x.a", "va.x.y", "va.x.y.a", "va.info", "va.x.z"}

\* get_ann_field(annotation, schema) on the one Struct of the list, root left at 'va'
CallGetAnnField ==
    /\ op = "none"
    /\ Len(s) = 1
    /\ \E annotation \in Annotations :
          /\ args' = [annotation |-> annotation]
          /\ \E r \in {get_ann_field(annotation, s[1], "va")} :
                /\ ret' = r.ret
                /\ err' = r.err
    /\ op' = "get_ann_field"
    /\ UNCHANGED <<s, s0, warns, exprs, all_anns, v>>

\* the roots the grouping is started at
Roots == {<<"va">>, <<"va", "info">>}

\* group_annotations_by_attribute(schema, grouping_key, root, recursive, default_func)
CallGroupAnnotationsByAttribute ==
    /\ op = "none"
    /\ Len(s) = 1
    /\ \E grouping_key \in {"Number", "Description"}, root \in Roots, recursive \in BOOLEAN,
          default_func \in {"", "default_values"} :
          /\ args' = [grouping_key |-> grouping_key, root |-> root, recursive |-> recursive,
                      default_func |-> default_func]
          /\ \E r \in {group_annotations_by_attribute(s[1], grouping_key, root, recursive,
                                                       default_func)} :
                /\ ret' = r.ret
                /\ err' = r.err
    /\ op' = "group_annotations_by_attribute"
    /\ UNCHANGED <<s, s0, warns, exprs, all_anns, v>>

\* get_numbered_annotations(schema, root, recursive, default_when_missing)
CallGetNumberedAnnotations ==
    /\ op = "none"
    /\ Len(s) = 1
    /\ \E root \in Roots, recursive \in BOOLEAN, default_when_missing \in BOOLEAN :
          /\ args' = [root |-> root, recursive |-> recursive,
                      default_when_missing |-> default_when_missing]
          /\ \E r \in {get_numbered_annotations(s[1], root, recursive, default_when_missing)} :
                /\ ret' = r.ret
                /\ err' = r.err
    /\ op' = "get_numbered_annotations"
    /\ UNCHANGED <<s, s0, warns, exprs, all_anns, v>>

\* flatten_struct(struct, root, leaf_only, recursive) on the one Struct of the list
CallFlattenStruct ==
    /\ op = "none"
    /\ Len(s) = 1
    /\ \E root \in {"va", ""}, leaf_only \in BOOLEAN, recursive \in BOOLEAN :
          /\ args' = [root |-> root, leaf_only |-> leaf_only, recursive |-> recursive]
          /\ ret' = flatten_struct(s[1], root, leaf_only, recursive)
    /\ op' = "flatten_struct"
    /\ UNCHANGED <<s, s0, err, warns, exprs, all_anns, v>>

Next ==
    \/ CallMergeTStructs
    \/ CallReplaceVdsVariantSchema
    \/ CallUnifyVdsSchemas
    \/ CallMergeSchemas
    \/ CallGetAnnField
    \/ CallFlattenStruct
    \/ CallGroupAnnotationsByAttribute
    \/ CallGetNumberedAnnotations

Spec == Init /\ [][Next]_vars

(***************************************************************************)
(* Variants: at most MaxAlt alternate alleles; an A-based, an R-based and  *)
(* a G-based array whose entries tell the allele or genotype index they    *)
(* belong to, the filter set, the per-allele filter sets and the VEP       *)
(* consequences, one per alternate allele                                  *)
(***************************************************************************)
MaxAlt == 3

FilterNames == {"AC0", "RF", "LowQual"}

AlleleFilterSets == {{}, {"AC0"}, {"AC0", "RF"}}

SubFields == {"va.vep.transcript_consequences", "va.vep.intergenic_consequences",
              "va.vep.motif_feature_consequences", "va.vep.regulatory_feature_consequences"}

ABased(nAlt) == [i \in 1..nAlt |-> 10 + i]

RBased(nAlt) == [i \in 1..(nAlt + 1) |-> 20 + (i - 1)]

GBased(nAlt) == [i \in 1..(((nAlt + 1) * (nAlt + 2)) \div 2) |-> 100 + (i - 1)]

Variant(nAlt, filters, status) ==
    [nAltAlleles |-> nAlt,
     va |-> [a \in {"va.info.AC", "va.info.AD", "va.info.PL", "va.filters",
                    "va.info.AS_FilterStatus"} \cup SubFields |->
                CASE a = "va.info.AC" -> HailArray(ABased(nAlt))
                  [] a = "va.info.AD" -> HailArray(RBased(nAlt))
                  [] a = "va.info.PL" -> HailArray(GBased(nAlt))
                  [] a = "va.filters" -> HailValue(filters)
                  [] a = "va.info.AS_FilterStatus" -> HailArray(status)
                  [] OTHER -> HailArray([i \in 1..nAlt |-> [allele_num |-> i]])]]

Variants ==
    UNION {{Variant(nAlt, filters, status) :
               filters \in SUBSET FilterNames, status \in [1..nAlt -> AlleleFilterSets]}
           : nAlt \in 1..MaxAlt}

\* aIndices of filter_alleles: the old indices of the alleles that are kept, the reference
\* first, in their order
AIndices(nAlt) ==
    {SetToSeqAscending({0} \cup alts) : alts \in SUBSET (1..nAlt)}

InitAlleles ==
    /\ s = <<>>
    /\ s0 = <<>>
    /\ op = "none"
    /\ ret = <<>>
    /\ err = ""
    /\ warns = <<>>
    /\ exprs = <<>>
    /\ all_anns = <<>>
    /\ args = <<>>
    /\ v \in Variants

Env(aIndex, aIndices) ==
    [va |-> v.va, aIndex |-> aIndex, aIndices |-> aIndices, nAltAlleles |-> v.nAltAlleles]

\* index_into_arrays(...) on a variant that split_multi gave va.aIndex = aIndex
CallIndexIntoArrays ==
    /\ op = "none"
    /\ \E aIndex \in 1..v.nAltAlleles,
          a_based_annotations \in {<<>>, <<"va.info.AC">>},
          r_based_annotations \in {<<>>, <<"va.info.AD">>},
          vep_root \in {"", "va.vep"}, drop_ref_ann \in BOOLEAN :
          /\ args' = [aIndex |-> aIndex, a_based_annotations |-> a_based_annotations,
                      r_based_annotations |-> r_based_annotations, vep_root |-> vep_root,
                      drop_ref_ann |-> drop_ref_ann]
          /\ exprs' = index_into_arrays(a_based_annotations, r_based_annotations, vep_root,
                                        drop_ref_ann)
          /\ ret' = Annotate(Env(aIndex, <<>>), exprs')
    /\ op' = "index_into_arrays"
    /\ UNCHANGED <<s, s0, err, warns, all_anns, v>>

\* unfurl_filter_alleles_annotation(...) in filter_alleles, which binds aIndices
CallUnfurlFilterAllelesAnnotation ==
    /\ op = "none"
    /\ \E aIndices \in AIndices(v.nAltAlleles),
          a_based \in {<<>>, <<"va.info.AC">>}, r_based \in {<<>>, <<"va.info.AD">>},
          g_based \in {<<>>, <<"va.info.PL">>},
          additional_annotations \in
              {NoAdditional, Additional("str", <<"va.info.AN = 2">>),
               Additional("list", <<"va.info.AN = 2", "va.info.DB = true">>)} :
          /\ args' = [aIndices |-> aIndices, a_based |-> a_based, r_based |-> r_based,
                      g_based |-> g_based, additional_annotations |-> additional_annotations]
          /\ exprs' = unfurl_filter_alleles_annotation(a_based, r_based, g_based,
                                                       additional_annotations)
          /\ ret' = Annotate(Env(0, aIndices), exprs')
    /\ op' = "unfurl_filter_alleles_annotation"
    /\ UNCHANGED <<s, s0, err, warns, all_anns, v>>

\* cut_allele_from_g_array(target, destination) in filter_alleles
CallCutAlleleFromGArray ==
    /\ op = "none"
    /\ \E aIndices \in AIndices(v.nAltAlleles), destination \in {"", "va.info.PL_kept"} :
          /\ args' = [aIndices |-> aIndices, target |-> "va.info.PL",
                      destination |-> destination]
          /\ exprs' = <<cut_allele_from_g_array("va.info.PL", destination)>>
          /\ ret' = Annotate(Env(0, aIndices), exprs')
    /\ op' = "cut_allele_from_g_array"
    /\ UNCHANGED <<s, s0, err, warns, all_anns, v>>

\* recompute_filters_by_allele(vds, AS_filters, indexed_into_array): with
\* indexed_into_array the variant is one that split_multi and index_into_arrays have
\* left with the per-allele set of allele aIndex (lines 871-875)
CallRecomputeFiltersByAllele ==
    /\ op = "none"
    /\ \E AS_filters \in {<<>>, <<"AC0">>, <<"AC0", "RF">>}, indexed_into_array \in BOOLEAN :
          \E aIndex \in IF indexed_into_array THEN 1..v.nAltAlleles ELSE {0} :
              /\ args' = [AS_filters |-> AS_filters, indexed_into_array |-> indexed_into_array,
                          aIndex |-> aIndex]
              /\ exprs' = recompute_filters_by_allele(AS_filters, indexed_into_array)
              /\ ret' = Annotate(
                            [Env(aIndex, <<>>) EXCEPT !.va =
                                IF indexed_into_array
                                THEN Annotate(Env(aIndex, <<>>),
                                              index_into_arrays(<<"va.info.AS_FilterStatus">>,
                                                                <<>>, "", FALSE))
                                ELSE @],
                            exprs')
    /\ op' = "recompute_filters_by_allele"
    /\ UNCHANGED <<s, s0, err, warns, all_anns, v>>

NextAlleles ==
    \/ CallIndexIntoArrays
    \/ CallUnfurlFilterAllelesAnnotation
    \/ CallCutAlleleFromGArray
    \/ CallRecomputeFiltersByAllele

SpecAlleles == InitAlleles /\ [][NextAlleles]_vars

(***************************************************************************)
(* Genotype indices: a pair j <= k of at most MaxAllele alleles is given   *)
(* its index, and the index is read back as a pair                         *)
(***************************************************************************)
MaxAllele == 20

InitGenotypes ==
    /\ s = <<>>
    /\ s0 = <<>>
    /\ op = "none"
    /\ ret = <<>>
    /\ err = ""
    /\ warns = <<>>
    /\ exprs = <<>>
    /\ all_anns = <<>>
    /\ v = NoVariant
    /\ \E nAllele \in 1..MaxAllele : \E k \in 0..(nAllele - 1) : \E j \in 0..k :
          args = [nAllele |-> nAllele, j |-> j, k |-> k]

CallGtIndex ==
    /\ op = "none"
    /\ ret' = gtIndex(args.j, args.k)
    /\ op' = "gtIndex"
    /\ UNCHANGED <<s, s0, err, warns, exprs, all_anns, args, v>>

CallGtjGtk ==
    /\ op = "gtIndex"
    /\ ret' = <<gtj(ret), gtk(ret)>>
    /\ op' = "gtj, gtk"
    /\ UNCHANGED <<s, s0, err, warns, exprs, all_anns, args, v>>

NextGenotypes ==
    \/ CallGtIndex
    \/ CallGtjGtk

SpecGenotypes == InitGenotypes /\ [][NextGenotypes]_vars

(***************************************************************************)
(* Vocabulary of the properties: fields by their list of names from the    *)
(* root, read off the Structs directly                                     *)
(***************************************************************************)
NamesOf(t) == [i \in DOMAIN t.fields |-> t.fields[i].name]

Declares(t, name) == \E i \in DOMAIN t.fields : t.fields[i].name = name

Declared(t, name) == t.fields[CHOOSE i \in DOMAIN t.fields : t.fields[i].name = name]

RECURSIVE PathsOf(_)
PathsOf(t) ==
    UNION {{<<t.fields[i].name>>} \cup {<<t.fields[i].name>> \o p : p \in PathsOf(t.fields[i].typ)}
           : i \in DOMAIN t.fields}

RECURSIVE FieldAt(_, _)
FieldAt(t, p) ==
    IF Len(p) = 1 THEN Declared(t, p[1]) ELSE FieldAt(Declared(t, p[1]).typ, Tail(p))

\* the type that holds the fields at path p: the Struct itself for the empty path
TypeAt(t, p) == IF p = <<>> THEN t ELSE FieldAt(t, p).typ

\* the inputs that have a field at path p (every input for the empty path)
Holders(p) == {j \in DOMAIN s0 : p = <<>> \/ p \in PathsOf(s0[j])}

Earliest(S) == CHOOSE j \in S : \A i \in S : j <= i

Merged == op = "merge_TStructs" /\ err = "" /\ Len(s0) >= 2

\* the inputs at path p that are Structs, and the first of them to declare `name`
StructHolders(p) == {j \in Holders(p) : TypeAt(s0[j], p).tag = "TStruct"}

FirstDeclaring(p, name) == Earliest({j \in StructHolders(p) : Declares(TypeAt(s0[j], p), name)})

PositionIn(t, name) == CHOOSE i \in DOMAIN t.fields : t.fields[i].name = name

\* name n1 comes before n2 at path p: first declared by an earlier input, or earlier in the same one
ComesBefore(p, n1, n2) ==
    LET j1 == FirstDeclaring(p, n1)
        j2 == FirstDeclaring(p, n2)
    IN  \/ j1 < j2
        \/ j1 = j2 /\ PositionIn(TypeAt(s0[j1], p), n1) < PositionIn(TypeAt(s0[j1], p), n2)

\* the field names of `t` are those the inputs declare at path p, in first-appearance order
UnionInOrder(t, p) ==
    /\ Range(NamesOf(t)) = UNION {Range(NamesOf(TypeAt(s0[j], p))) : j \in StructHolders(p)}
    /\ \A i, j \in DOMAIN t.fields : i < j => ComesBefore(p, t.fields[i].name, t.fields[j].name)

\* C1: after merge_TStructs has merged two or more Structs, the top-level fields of the
\* result are the fields of the first Struct in their order, then the fields first seen in a
\* later Struct, by position of that Struct and then by its own field order; no name twice
C1_MergeFieldOrder == Merged => UnionInOrder(ret, <<>>)

C1_Witness ==
    /\ Merged
    /\ NamesOf(s0[1]) = <<"a", "b">>
    /\ NamesOf(s0[2]) = <<"b", "c">>
    /\ NamesOf(ret) = <<"a", "b", "c">>

RECURSIVE TagConflict(_)
\* two Structs of the list declare, at the same place, a field of one name with two tags
TagConflict(structs) ==
    \E i, j \in DOMAIN structs : i < j /\
        \E m \in DOMAIN structs[i].fields, n \in DOMAIN structs[j].fields :
            LET f == structs[i].fields[m]
                g == structs[j].fields[n]
            IN  /\ f.name = g.name
                /\ \/ f.typ.tag # g.typ.tag
                   \/ f.typ.tag = "TStruct" /\ TagConflict(<<f.typ, g.typ>>)

\* C2: merge_TStructs raises its TypeError, and returns nothing, exactly when two of the
\* input Structs give one field name two different type tags, at the top level or inside
\* same-named nested Structs, wherever the two Structs stand in the list
C2_ConflictIffTypeError ==
    op = "merge_TStructs" =>
        /\ (err = "TypeError") <=> TagConflict(s0)
        /\ err = "TypeError" => ret = NoStruct

\* the only conflict is a nested one between the second and the third Struct
C2_Witness ==
    /\ op = "merge_TStructs"
    /\ err = "TypeError"
    /\ Len(s0) = 3
    /\ ~TagConflict(<<s0[1], s0[2]>>)
    /\ ~TagConflict(<<s0[1], s0[3]>>)
    /\ \A n \in DOMAIN s0[2].fields, m \in DOMAIN s0[3].fields :
          s0[2].fields[n].name = s0[3].fields[m].name
              => s0[2].fields[n].typ.tag = s0[3].fields[m].typ.tag

\* the inputs whose field at path p defines attribute key k
Definers(p, k) == {j \in Holders(p) : k \in DOMAIN FieldAt(s0[j], p).attributes}

\* the union of the inputs' attribute maps at path p, the earliest input's value for each key
UnionFirstWins(p) ==
    [k \in UNION {DOMAIN FieldAt(s0[j], p).attributes : j \in Holders(p)} |->
        FieldAt(s0[Earliest(Definers(p, k))], p).attributes[k]]

\* <<p, k, j>>: input j defines key k at path p after another input did, with another value
LateDifferences ==
    UNION {UNION {{<<p, k, j>> : k \in {k \in DOMAIN FieldAt(s0[j], p).attributes :
                                        /\ j > Earliest(Definers(p, k))
                                        /\ FieldAt(s0[j], p).attributes[k] # UnionFirstWins(p)[k]}}
                  : p \in PathsOf(s0[j])}
           : j \in DOMAIN s0}

WarningFor(x) ==
    Warning("AttributeConflict", x[1][Len(x[1])], x[2], UnionFirstWins(x[1])[x[2]],
            FieldAt(s0[x[3]], x[1]).attributes[x[2]])

AttributeConflicts == SelectSeq(warns, LAMBDA w : w.kind = "AttributeConflict")

\* C3: in the result of merge_TStructs the attributes of a field are the union of the
\* attributes of the same-named fields of the inputs, the earliest input's value kept for
\* every key, and one warning is logged for each later field with another value for a key
C3_AttributeUnionFirstWins ==
    Merged =>
        /\ \A p \in PathsOf(ret) : FieldAt(ret, p).attributes = UnionFirstWins(p)
        /\ \A w \in Range(AttributeConflicts) \cup {WarningFor(x) : x \in LateDifferences} :
              Cardinality({n \in DOMAIN AttributeConflicts : AttributeConflicts[n] = w})
                  = Cardinality({x \in LateDifferences : WarningFor(x) = w})

\* Number="1" then Number="2": "1" is kept and one warning is logged
C3_Witness ==
    /\ Merged
    /\ Len(s0) = 2
    /\ NamesOf(s0[1]) = <<"a">> /\ s0[1].fields[1].attributes = Number("1")
    /\ NamesOf(s0[2]) = <<"a">> /\ s0[2].fields[1].attributes = Number("2")
    /\ ret.fields[1].attributes = Number("1")
    /\ Len(AttributeConflicts) = 1

\* C5: a Struct-typed field that several inputs of merge_TStructs declare has, in the result,
\* the merge of those Struct types in input order: at every nesting level the field names are
\* the union of the inputs' names at that path; declared by one input only, its type is kept
C5_NestedMerge ==
    Merged =>
        /\ PathsOf(ret) = UNION {PathsOf(s0[j]) : j \in DOMAIN s0}
        /\ \A p \in PathsOf(ret) :
              FieldAt(ret, p).typ.tag = "TStruct" =>
                  /\ UnionInOrder(FieldAt(ret, p).typ, p)
                  /\ Cardinality(Holders(p)) = 1 =>
                        FieldAt(ret, p).typ = FieldAt(s0[Earliest(Holders(p))], p).typ

\* three inputs declare the Struct field x, and the third brings a name the first two lack
C5_Witness ==
    /\ Merged
    /\ Len(s0) = 3
    /\ \A j \in 1..3 : Declares(s0[j], "x") /\ Declared(s0[j], "x").typ.tag = "TStruct"
    /\ \E n \in Range(NamesOf(Declared(s0[3], "x").typ)) :
          /\ n \notin Range(NamesOf(Declared(s0[1], "x").typ))
          /\ n \notin Range(NamesOf(Declared(s0[2], "x").typ))
          /\ n \in Range(NamesOf(Declared(ret, "x").typ))

\* C4: when merge_TStructs returns a Struct, the argument list and every field of every
\* input Struct (name, type, attribute map) are as they were before the call
C4_MergeLeavesInputsAlone ==
    (op = "merge_TStructs" /\ err = "") => s = s0

LeafPaths(t) == {p \in PathsOf(t) : FieldAt(t, p).typ.tag # "TStruct"}

RECURSIVE DottedPath(_, _)
\* the dotted path of the field at p, under `root`
DottedPath(root, p) ==
    IF p = <<>> THEN root ELSE DottedPath(root \o "." \o p[1], Tail(p))

RECURSIVE ClaimedProgram(_, _, _)
\* the program the rule of C6 gives for the fields of `new` at path p of the new schema
ClaimedProgram(old, new, p) ==
    [i \in DOMAIN new.fields |->
        LET f == new.fields[i]
            q == Append(p, f.name)
        IN  IF q \notin PathsOf(old) \/ FieldAt(old, q).typ.tag # f.typ.tag
            THEN Directive(f.name, "NA", f.typ, "", <<>>)
            ELSE IF f.typ.tag = "TStruct"
            THEN Directive(f.name, "struct", f.typ, "", ClaimedProgram(old, f.typ, q))
            ELSE Directive(f.name, "path", f.typ, DottedPath("va", q), <<>>)]

\* C6: replace_vds_variant_schema builds, without error, one directive per field of the new
\* schema in its order: a typed null for a path the old schema lacks or has with another
\* type tag, a nested struct expression for a Struct, the path itself otherwise
C6_ReplaceProgram ==
    op = "replace_vds_variant_schema" =>
        /\ err = ""
        /\ exprs = <<ClaimedProgram(s0[1], s0[2], <<>>)>>

\* C7: after replace_vds_variant_schema, every field of the new schema, Struct or leaf, has
\* in the returned dataset the attribute map it has in the new schema
C7_ReplaceAttributes ==
    (op = "replace_vds_variant_schema" /\ err = "") =>
        \A p \in PathsOf(s0[2]) :
            FieldAt(ret.variant_schema, p).attributes = FieldAt(s0[2], p).attributes

\* C8: unify_vds_schemas returns one dataset per input dataset, each with the merged schema:
\* the same names, order and types at every path, element types included
C8_UnifiedSchemas ==
    (op = "unify_vds_schemas" /\ ~TagConflict(s0) /\ s0 # <<>>) =>
        /\ err = ""
        /\ Len(ret) = Len(s0)
        /\ \A i \in DOMAIN ret :
              StripAttributes(ret[i].variant_schema) = StripAttributes(merge_TStructs(s0).ret)

RECURSIVE DirectiveAt(_, _)
\* the directive that decides the value at path p: the one at p, or the typed null above it
DirectiveAt(expr, p) ==
    LET d == expr[CHOOSE i \in DOMAIN expr : expr[i].name = p[1]]
    IN  IF Len(p) = 1 \/ d.src # "struct" THEN d ELSE DirectiveAt(d.sub, Tail(p))

\* C9: in unify_vds_schemas, when the schemas merge, the program of each dataset reuses the
\* value at every leaf path of the dataset's schema and gives a typed null at the leaf paths
\* of the merged schema that the dataset lacks
C9_UnifyKeepsValues ==
    (op = "unify_vds_schemas" /\ ~TagConflict(s0) /\ s0 # <<>>) =>
        /\ err = ""
        /\ Len(exprs) = Len(s0)
        /\ \A i \in DOMAIN exprs :
              \A p \in LeafPaths(merge_TStructs(s0).ret) :
                  LET d == DirectiveAt(exprs[i], p)
                  IN  IF p \in LeafPaths(s0[i])
                      THEN d.src = "path" /\ d.path = DottedPath("va", p)
                      ELSE d.src = "NA"

\* C10: merge_schemas returns datasets that all carry every leaf path of the union of the
\* datasets' leaf paths
C10_MergeSchemasFills ==
    (op = "merge_schemas" /\ err = "") =>
        \A i \in DOMAIN ret :
            UNION {LeafPaths(s0[j]) : j \in DOMAIN s0} \subseteq LeafPaths(ret[i].variant_schema)

(***************************************************************************)
(* merge_schemas: attributes                                               *)
(***************************************************************************)
\* the datasets that have a leaf at path p, and those of them that define key k there
LeafHolders(p) == {j \in DOMAIN s0 : p \in LeafPaths(s0[j])}

LeafDefiners(p, k) == {j \in LeafHolders(p) : k \in DOMAIN FieldAt(s0[j], p).attributes}

\* two datasets give key k different values at leaf path p
GivenDifferentValues(p, k) ==
    \E i, j \in LeafDefiners(p, k) :
        FieldAt(s0[i], p).attributes[k] # FieldAt(s0[j], p).attributes[k]

AllLeafPaths == UNION {LeafPaths(s0[j]) : j \in DOMAIN s0}

AttributeKeys == {"Number", "Description"}

\* the attribute map merge_schemas hands to set_va_attributes for path p
Reconciled(p) == OdGet(all_anns, DottedPath("va", p)).attributes

\* C11 as stated: in merge_schemas, when datasets give key k different values at a leaf
\* path, the reconciled value of k there is the value of the earliest dataset defining k
C11_EarliestDefinerWins ==
    (op = "merge_schemas" /\ err = "" /\ s0 # <<>>) =>
        \A p \in AllLeafPaths : \A k \in AttributeKeys :
            GivenDifferentValues(p, k) =>
                /\ k \in DOMAIN Reconciled(p)
                /\ Reconciled(p)[k] = FieldAt(s0[Earliest(LeafDefiners(p, k))], p).attributes[k]

\* C11 amended: in merge_schemas, when datasets give key k different values at a leaf path,
\* the reconciled attribute map there is the whole map of the earliest dataset that has the
\* path: k has its earliest definer's value when that dataset defines k, and is absent
\* from the reconciled map when it does not
C11_EarliestHolderWins ==
    (op = "merge_schemas" /\ err = "" /\ s0 # <<>>) =>
        \A p \in AllLeafPaths : \A k \in AttributeKeys :
            GivenDifferentValues(p, k) =>
                /\ Reconciled(p) = FieldAt(s0[Earliest(LeafHolders(p))], p).attributes
                /\ IF Earliest(LeafHolders(p)) \in LeafDefiners(p, k)
                   THEN /\ k \in DOMAIN Reconciled(p)
                        /\ Reconciled(p)[k] =
                               FieldAt(s0[Earliest(LeafDefiners(p, k))], p).attributes[k]
                   ELSE k \notin DOMAIN Reconciled(p)

\* the later datasets give Number different values at a leaf that the first dataset has
\* without it, and the reconciled map is the first dataset's
C11_Witness ==
    /\ op = "merge_schemas" /\ err = ""
    /\ \E p \in AllLeafPaths :
          /\ GivenDifferentValues(p, "Number")
          /\ Earliest(LeafHolders(p)) \notin LeafDefiners(p, "Number")
          /\ Reconciled(p) = FieldAt(s0[1], p).attributes

(***************************************************************************)
(* Fatal conditions                                                        *)
(***************************************************************************)
\* what a caller can catch as an error of the operation: Python's exception classes
\* other than SystemExit, which sys.exit raises to end the interpreter
TypedErrors == {"ValueError", "TypeError", "IndexError", "KeyError"}

\* the paths get_ann_field can find: every field of the schema, Structs included
KnownAnnotations(schema) == {DottedPath("va", p) : p \in PathsOf(schema)}

RootTagsDiffer == \E i \in DOMAIN s0 : s0[i].tag # s0[1].tag

\* a leaf path that two datasets have with different type tags
LeafTagsDiffer ==
    \E p \in AllLeafPaths : \E i, j \in LeafHolders(p) :
        FieldAt(s0[i], p).typ.tag # FieldAt(s0[j], p).typ.tag

\* C12: every fatal condition ends the operation with a typed error and never with the end
\* of the process: get_ann_field of a path the schema lacks, merge_TStructs of an empty
\* list, merge_schemas of differing root type tags or of a leaf path with differing type tags
C12_FatalIsTypedError ==
    /\ (op = "get_ann_field" /\ args.annotation \notin KnownAnnotations(s0[1]))
            => err \in TypedErrors
    /\ (op = "merge_TStructs" /\ s0 = <<>>) => err \in TypedErrors
    /\ (op = "merge_schemas" /\ s0 # <<>> /\ (RootTagsDiffer \/ LeafTagsDiffer))
            => err \in TypedErrors
    /\ err # "SystemExit"

(***************************************************************************)
(* flatten_struct                                                          *)
(***************************************************************************)
\* the dotted path of the field at p as flatten_struct writes it: no leading dot without root
DottedUnder(root, p) == IF root = "" THEN DottedPath(p[1], Tail(p)) ELSE DottedPath(root, p)

\* the length of the longest common prefix of two paths
RECURSIVE CommonPrefix(_, _)
CommonPrefix(p, q) ==
    IF p = <<>> \/ q = <<>> \/ p[1] # q[1] THEN 0 ELSE 1 + CommonPrefix(Tail(p), Tail(q))

\* p comes before q in depth-first declaration order: where the two paths part, the field
\* on the way to p is declared before the field on the way to q
DeclaredBefore(t, p, q) ==
    LET n == CommonPrefix(p, q)
        holder == TypeAt(t, SubSeq(p, 1, n))
    IN  /\ n < Len(p) /\ n < Len(q)
        /\ PositionIn(holder, p[n + 1]) < PositionIn(holder, q[n + 1])

Flattened == op = "flatten_struct" /\ args.leaf_only /\ args.recursive

\* C13: flatten_struct(S, root, leaf_only=True, recursive=True) has one entry for every
\* non-Struct field of S at any depth and no other entry; the key is the field's dotted
\* path and the value the Field; the entries are in depth-first declaration order
C13_FlattenLeaves ==
    Flattened =>
        /\ Len(ret) = Cardinality(LeafPaths(s0[1]))
        /\ \A p \in LeafPaths(s0[1]) :
              \E i \in DOMAIN ret :
                  /\ ret[i].key = DottedUnder(args.root, p)
                  /\ ret[i].value = FieldAt(s0[1], p)
        /\ \A p \in PathsOf(s0[1]) \ LeafPaths(s0[1]) :
              \A i \in DOMAIN ret : ret[i].key # DottedUnder(args.root, p)
        /\ \A p, q \in LeafPaths(s0[1]) : \A i, j \in DOMAIN ret :
              (/\ ret[i].key = DottedUnder(args.root, p)
               /\ ret[j].key = DottedUnder(args.root, q)
               /\ i < j) => DeclaredBefore(s0[1], p, q)

\* a leaf declared before a Struct with two leaves: three entries
C13_Witness ==
    /\ Flattened
    /\ Len(ret) = 3
    /\ Len(s0[1].fields) = 2
    /\ s0[1].fields[2].typ.tag = "TStruct"

\* a Struct-typed field without fields: no entry
C13_WitnessEmptyStruct ==
    /\ Flattened
    /\ ret = <<>>
    /\ Len(s0[1].fields) = 1
    /\ s0[1].fields[1].typ = TStruct(<<>>)

(***************************************************************************)
(* Grouping by attribute                                                   *)
(***************************************************************************)
\* the Struct the grouping starts at, and the fields it visits without descending into
\* them, as paths from that Struct: its own fields, or with `recursive` the non-Struct
\* fields at any depth
GroupedType == TypeAt(s0[1], Tail(args.root))

Visited ==
    IF args.recursive THEN LeafPaths(GroupedType)
    ELSE {p \in PathsOf(GroupedType) : Len(p) = 1}

VisitedPath(p) == DottedPath(Dotted(args.root), p)

\* the places <<bucket, position>> of the result that hold the field at p
PlacesOf(p) ==
    UNION {{<<i, n>> : n \in {m \in DOMAIN ret[i].value :
                ret[i].value[m] = PathAndField(VisitedPath(p), FieldAt(GroupedType, p))}}
           : i \in DOMAIN ret}

InBucket(p, k) == \E pl \in PlacesOf(p) : ret[pl[1]].key = k

\* the classification of a field without Number that C14 states
ClassifiedAs(t) ==
    IF t.tag \in {"TArray", "TSet"} THEN "."
    ELSE IF t.tag = "TBoolean" THEN "0"
    ELSE IF t.tag \in {"TInt", "TLong", "TFloat", "TDouble", "TString"} THEN "1"
    ELSE None

\* C14: get_numbered_annotations with default_when_missing on puts every visited field
\* without a Number attribute into the bucket of its type: "." for Array and Set, "0" for
\* Boolean, "1" for the other types a VCF can hold, None for the rest
C14_DefaultClassification ==
    (op = "get_numbered_annotations" /\ args.default_when_missing /\ err = "") =>
        \A p \in Visited :
            "Number" \notin DOMAIN FieldAt(GroupedType, p).attributes =>
                InBucket(p, ClassifiedAs(FieldAt(GroupedType, p).typ))

\* C15: group_annotations_by_attribute puts every visited field into exactly one bucket
\* exactly once, the fields of a bucket in the order they are met, and without a default
\* function every field that lacks the attribute, Arrays included, under None
C15_GroupingPartitions ==
    (op = "group_annotations_by_attribute" /\ err = "") =>
        /\ \A p \in Visited : Cardinality(PlacesOf(p)) = 1
        /\ \A p, q \in Visited : \A pl \in PlacesOf(p), ql \in PlacesOf(q) :
              (pl[1] = ql[1] /\ pl[2] < ql[2]) => DeclaredBefore(GroupedType, p, q)
        /\ args.default_func = "" =>
              \A p \in Visited :
                  args.grouping_key \notin DOMAIN FieldAt(GroupedType, p).attributes =>
                      InBucket(p, None)

(***************************************************************************)
(* Allele-indexed annotations                                              *)
(***************************************************************************)
Before(ann) == v.va[ann].items

\* C16 as stated: index_into_arrays with va.aIndex rewrites every A-based annotation to the
\* one-element array [value[aIndex-1]] and every R-based annotation to the array
\* [value[0], value[aIndex]], or with drop_ref_ann to the one-element array [value[aIndex]]
C16_SplitGivesArrays ==
    op = "index_into_arrays" =>
        /\ \A ann \in Range(args.a_based_annotations) :
              ret[ann] = HailArray(<<At(Before(ann), args.aIndex - 1)>>)
        /\ \A ann \in Range(args.r_based_annotations) :
              ret[ann] = IF args.drop_ref_ann
                         THEN HailArray(<<At(Before(ann), args.aIndex)>>)
                         ELSE HailArray(<<At(Before(ann), 0), At(Before(ann), args.aIndex)>>)

\* C16 amended: index_into_arrays with va.aIndex rewrites every A-based annotation to the
\* element value[aIndex-1] itself and every R-based annotation to the two-element array
\* [value[0], value[aIndex]], or with drop_ref_ann to the element value[aIndex] itself:
\* only the R-based value that keeps the reference is an array
C16_SplitGivesElements ==
    op = "index_into_arrays" =>
        /\ \A ann \in Range(args.a_based_annotations) :
              ret[ann] = HailValue(At(Before(ann), args.aIndex - 1))
        /\ \A ann \in Range(args.r_based_annotations) :
              ret[ann] = IF args.drop_ref_ann
                         THEN HailValue(At(Before(ann), args.aIndex))
                         ELSE HailArray(<<At(Before(ann), 0), At(Before(ann), args.aIndex)>>)

\* the second of three alternate alleles survives; A-based and R-based annotations are
\* rewritten, the R-based one without its reference value
C16_Witness ==
    /\ op = "index_into_arrays"
    /\ v.nAltAlleles = 3 /\ args.aIndex = 2
    /\ args.drop_ref_ann
    /\ ret["va.info.AC"] = HailValue(12)
    /\ ret["va.info.AD"] = HailValue(22)

\* C17: unfurl_filter_alleles_annotation with aIndices, aIndices[0] = 0, rewrites every
\* R-based array to [value[i] for i in aIndices] and every A-based array to
\* [value[i-1] for i in aIndices[1:]], so that the A-based entry at position p and the
\* R-based entry at position p+1 belong to the same original allele
C17_SubsetByAllele ==
    op = "unfurl_filter_alleles_annotation" =>
        LET aIndices == args.aIndices
        IN  /\ aIndices[1] = 0
            /\ \A ann \in Range(args.r_based) :
                  ret[ann] = HailArray([n \in 1..Len(aIndices) |-> At(Before(ann), aIndices[n])])
            /\ \A ann \in Range(args.a_based) :
                  ret[ann] = HailArray([n \in 1..(Len(aIndices) - 1) |->
                                           At(Before(ann), aIndices[n + 1] - 1)])
            /\ \A a \in Range(args.a_based), r \in Range(args.r_based) :
                  \A p \in 0..(Len(aIndices) - 2) :
                      /\ At(ret[a].items, p) = At(ABased(v.nAltAlleles), aIndices[p + 2] - 1)
                      /\ At(ret[r].items, p + 1) = At(RBased(v.nAltAlleles), aIndices[p + 2])

\* the first and the third of three alternate alleles are kept
C17_Witness ==
    /\ op = "unfurl_filter_alleles_annotation"
    /\ v.nAltAlleles = 3 /\ args.aIndices = <<0, 1, 3>>
    /\ ret["va.info.AC"] = HailArray(<<11, 13>>)
    /\ ret["va.info.AD"] = HailArray(<<20, 21, 23>>)

\* the alleles that are removed, and the indices of the genotypes without a removed allele
Removed == (1..v.nAltAlleles) \ Range(args.aIndices)

KeptGenotypes ==
    {gtIndex(j, k) : <<j, k>> \in {jk \in (0..v.nAltAlleles) \X (0..v.nAltAlleles) :
                                     /\ jk[1] <= jk[2]
                                     /\ jk[1] \notin Removed /\ jk[2] \notin Removed}}

\* C18: cut_allele_from_g_array keeps, in ascending order of their index, exactly the
\* entries of the genotypes j/k without a removed allele, the removed alleles being those of
\* 1..nAltAlleles that are not in aIndices; the reference is never removed; of six entries
\* with aIndices = [0, 1] the entries 0, 1, 2 are kept in that order
C18_CutKeepsUnremoved ==
    op = "cut_allele_from_g_array" =>
        LET kept == SetToSeqAscending(KeptGenotypes)
            dest == IF args.destination = "" THEN args.target ELSE args.destination
        IN  /\ 0 \notin Removed
            /\ ret[dest] = HailArray([n \in DOMAIN kept |-> At(Before(args.target), kept[n])])
            /\ (Len(Before(args.target)) = 6 /\ args.aIndices = <<0, 1>>) =>
                  ret[dest] = HailArray(<<At(Before(args.target), 0), At(Before(args.target), 1),
                                          At(Before(args.target), 2)>>)

\* the second of three alternate alleles is removed: of ten entries those of 0/0, 0/1, 1/1,
\* 0/3, 1/3 and 3/3 are kept
C18_Witness ==
    /\ op = "cut_allele_from_g_array"
    /\ v.nAltAlleles = 3 /\ args.aIndices = <<0, 1, 3>>
    /\ ret["va.info.PL"] = HailArray(<<100, 101, 102, 106, 107, 109>>)

\* the pairs j <= k of nAllele alleles
GenotypePairs(nAllele) ==
    {jk \in (0..(nAllele - 1)) \X (0..(nAllele - 1)) : jk[1] <= jk[2]}

\* C19: for at most 20 alleles, the index k*(k+1)/2 + j of a pair j <= k is read back
\* as that pair by k = floor((sqrt(8*idx+1) - 1)/2), j = idx - k*(k+1)/2, and the
\* indices of the pairs of nAllele alleles are 0 .. nAllele*(nAllele+1)/2 - 1, each once
C19_TriangularBijection ==
    /\ op = "gtj, gtk" => ret = <<args.j, args.k>>
    /\ op = "gtIndex" =>
          LET size == (args.nAllele * (args.nAllele + 1)) \div 2
          IN  /\ ret \in 0..(size - 1)
              /\ {gtIndex(jk[1], jk[2]) : jk \in GenotypePairs(args.nAllele)} = 0..(size - 1)
              /\ Cardinality(GenotypePairs(args.nAllele)) = size

\* the last pair of twenty alleles: index 209 is read back as 19/19
C19_Witness ==
    /\ op = "gtj, gtk"
    /\ args.nAllele = 20
    /\ ret = <<19, 19>>
    /\ gtIndex(19, 19) = 209

\* the catalogue of allele-specific filter names, and the names that some surviving
\* allele's filter set holds: the array's sets, or the one set left by the split
Catalogue == IF args.AS_filters = <<>> THEN {"AC0", "RF"} ELSE Range(args.AS_filters)

InSomeAllele ==
    IF args.indexed_into_array
    THEN At(Before("va.info.AS_FilterStatus"), args.aIndex - 1)
    ELSE UNION Range(Before("va.info.AS_FilterStatus"))

\* C20: recompute_filters_by_allele leaves a subset of the variant's filter set that
\* lacks only names of the catalogue: a catalogue name of the set is removed iff no
\* surviving allele's filter set holds it, and every other name of the set is kept, for
\* the array of per-allele sets and for the single set alike
C20_FiltersReconciled ==
    op = "recompute_filters_by_allele" =>
        LET before == Before("va.filters")[1]
            after == ret["va.filters"].items[1]
        IN  /\ ret["va.filters"].type = "Value"
            /\ after \subseteq before
            /\ (before \ after) \subseteq Catalogue
            /\ \A x \in before \cap Catalogue : x \notin after <=> x \notin InSomeAllele
            /\ \A x \in before \ Catalogue : x \in after

\* after the split, the surviving allele's set holds AC0 and not RF: RF goes, AC0 and
\* LowQual stay
C20_Witness ==
    /\ op = "recompute_filters_by_allele"
    /\ args.indexed_into_array /\ args.AS_filters = <<>>
    /\ v.nAltAlleles = 2 /\ args.aIndex = 2
    /\ Before("va.info.AS_FilterStatus") = <<{"AC0", "RF"}, {"AC0"}>>
    /\ Before("va.filters")[1] = {"AC0", "RF", "LowQual"}
    /\ ret["va.filters"] = HailValue({"AC0", "LowQual"})

(***************************************************************************)
(* merge_TStructs: failure                                                 *)
(***************************************************************************)
\* C21: when merge_TStructs raises TypeError, every input Struct and every attribute map
\* of every input field is as it was before the call, also when fields or overlapping
\* Structs met before the conflicting one had attributes to union
C21_FailureLeavesInputsAlone ==
    (op = "merge_TStructs" /\ err = "TypeError") => s = s0

(***************************************************************************)
(* G-based arrays after allele subsetting                                  *)
(***************************************************************************)
\* the rank of a surviving allele: its 0-based position in aIndices
Rank(a) == (CHOOSE n \in DOMAIN args.aIndices : args.aIndices[n] = a) - 1

\* a call that cuts the G-based array va.info.PL, and where the result is put
CutsGArray ==
    \/ op = "cut_allele_from_g_array"
    \/ op = "unfurl_filter_alleles_annotation" /\ args.g_based # <<>>

CutDestination ==
    IF op = "cut_allele_from_g_array" /\ args.destination # "" THEN args.destination
    ELSE "va.info.PL"

\* C22: for strictly ascending aIndices that start with 0, m = |aIndices|, the array that
\* G-based subsetting produces has m*(m+1)/2 entries and the entry of the original pair
\* j/k stands at position r(k)*(r(k)+1)/2 + r(j), r the rank of an allele in aIndices:
\* the array is laid out by the surviving alleles' ranks as it is
C22_CutIsReducedLayout ==
    CutsGArray =>
        LET out == ret[CutDestination].items
            m == Len(args.aIndices)
        IN  /\ args.aIndices[1] = 0
            /\ \A n \in 1..(m - 1) : args.aIndices[n] < args.aIndices[n + 1]
            /\ Len(out) = (m * (m + 1)) \div 2
            /\ \A j, k \in Range(args.aIndices) :
                  j <= k =>
                      At(out, (Rank(k) * (Rank(k) + 1)) \div 2 + Rank(j))
                          = At(Before("va.info.PL"), gtIndex(j, k))

\* the first of three alternate alleles is removed, so that the ranks of the other two
\* differ from their numbers: the entries of 0/0, 0/2, 2/2, 0/3, 2/3, 3/3 fill positions 0..5
C22_Witness ==
    /\ op = "cut_allele_from_g_array"
    /\ v.nAltAlleles = 3 /\ args.aIndices = <<0, 2, 3>>
    /\ Rank(3) = 2
    /\ ret[CutDestination] = HailArray(<<100, 103, 105, 106, 108, 109>>)

====
